---- MODULE Spec2Model ----
(***************************************************************************)
(* A model of logmatching (src/main.py): the derivation of the EOSLogURL   *)
(* key of HTCondor and WMArchive records (add_log_htc, add_log_wma), the   *)
(* merge of the records that share a key (merge_dicts_by_url) and the      *)
(* main program that fetches the two batches and runs both.                *)
(*                                                                         *)
(* Python values.  A value is a record with a kind k: a scalar (a str; a   *)
(* number takes every branch of the code a one-character str takes), None, *)
(* a list of values or a dict.  A dict, like a Python dict, is a sequence  *)
(* of <<key, value>> pairs in insertion order with distinct keys.  The     *)
(* values of a nested dict are strings and the elements of a list are      *)
(* scalars, None or dicts (nesting is bounded at depth two).               *)
(***************************************************************************)
EXTENDS Integers, Sequences, FiniteSets, TLC

VARIABLES
    recs,      \* the record objects of the input list: recs[i] is item['data'] of the i-th item
    input,     \* recs as it was when the list was built (history)
    hashSeed,  \* the iteration order of set() in this process
    ncalls,    \* number of calls of merge_dicts_by_url made so far
    ret,       \* what the last call returned (or that it raised)
    ret1,      \* what the first call returned
    pc,        \* main program: position
    wma,       \* main program: response to the WMArchive query
    htc,       \* main program: response to the HTCondor query
    ran        \* main program: the functions of the core entered so far

vars == <<recs, input, hashSeed, ncalls, ret, ret1, pc, wma, htc, ran>>

S(s) == [k |-> "scalar", s |-> s, l |-> <<>>, d |-> <<>>]
NoneV == [k |-> "none", s |-> "", l |-> <<>>, d |-> <<>>]
L(xs) == [k |-> "list", s |-> "", l |-> xs, d |-> <<>>]
D(ps) == [k |-> "dict", s |-> "", l |-> <<>>, d |-> ps]

Range(q) == {q[i] : i \in DOMAIN q}

\* dict operations: keys(), `key in m`, m[key], m[key] = v
Keys(m) == {m[i][1] : i \in DOMAIN m}
Has(m, key) == key \in Keys(m)
Get(m, key) == m[CHOOSE i \in DOMAIN m : m[i][1] = key][2]
Put(m, key, v) ==
    IF Has(m, key)
    THEN [i \in DOMAIN m |-> IF m[i][1] = key THEN <<key, v>> ELSE m[i]]
    ELSE Append(m, <<key, v>>)

\* item['data'].get('EOSLogURL')
UrlOf(data) == IF Has(data, "EOSLogURL") THEN Get(data, "EOSLogURL") ELSE NoneV

\* a list or a dict cannot be the key of url_groups (TypeError: unhashable)
Unhashable(v) == v.k \in {"list", "dict"}

\* a faulty UrlGroupsUpTo: url_groups[url] = [item] in place of append
RECURSIVE UrlGroupsOverwrite(_, _)
UrlGroupsOverwrite(heap, n) ==
    IF n = 0 THEN <<>>
    ELSE Put(UrlGroupsOverwrite(heap, n - 1), UrlOf(heap[n]), <<n>>)

\* url_groups after the items 1..n of dict_list: a dict from url to the
\* list of the (indices of the) items that carry it
RECURSIVE UrlGroupsUpTo(_, _)
UrlGroupsUpTo(heap, n) ==
    IF n = 0 THEN <<>>
    ELSE LET g == UrlGroupsUpTo(heap, n - 1)
             url == UrlOf(heap[n])
         IN  Put(g, url, (IF Has(g, url) THEN Get(g, url) ELSE <<>>) \o <<n>>)

UrlGroups(heap) == UrlGroupsUpTo(heap, Len(heap))

\* a faulty ListOfSet: the list is kept as extended, duplicates included
ListKept(xs, seed) == xs

\* list(set(xs)) of a list of scalars: each element once, in the order the
\* set iterates, which is fixed within a process and differs between processes
RECURSIVE SetOrder(_)
SetOrder(set) ==
    IF set = {} THEN <<>>
    ELSE LET x == CHOOSE y \in set : TRUE IN <<x>> \o SetOrder(set \ {x})

Reverse(q) == [i \in DOMAIN q |-> q[Len(q) + 1 - i]]

ListOfSet(xs, seed) ==
    LET q == SetOrder(Range(xs)) IN IF seed = 0 THEN q ELSE Reverse(q)

\* isinstance(x, (str, int, float))
IsPrimitive(x) == x.k = "scalar"

\* What dict.update(value) reads from one element of an iterable: a key and a
\* value when the element has length two, nothing otherwise (it raises).
HasLen2(e) ==
    \/ e.k = "scalar" /\ Len(e.s) = 2
    \/ e.k = "dict" /\ Len(e.d) = 2
PairOfElem(e) ==
    IF e.k = "scalar" THEN <<SubSeq(e.s, 1, 1), SubSeq(e.s, 2, 2)>>
    ELSE <<e.d[1][1], e.d[2][1]>>

RECURSIVE UpdateFromDict(_, _, _)
UpdateFromDict(d, ps, n) ==
    IF n = 0 THEN d ELSE Put(UpdateFromDict(d, ps, n - 1), ps[n][1], ps[n][2])

\* the elements 1..n of a list given to update(): [d, raised]
RECURSIVE UpdateFromList(_, _, _)
UpdateFromList(d, xs, n) ==
    IF n = 0 THEN [d |-> d, raised |-> FALSE]
    ELSE LET r == UpdateFromList(d, xs, n - 1)
         IN  IF r.raised THEN r
             ELSE IF HasLen2(xs[n])
                  THEN [d |-> Put(r.d, PairOfElem(xs[n])[1], PairOfElem(xs[n])[2]),
                        raised |-> FALSE]
                  ELSE [d |-> r.d, raised |-> TRUE]

\* a faulty DictUpdate: a value that is not a dict is ignored
DictUpdateLenient(d, value) ==
    IF value.k = "dict"
    THEN [d |-> UpdateFromDict(d, value.d, Len(value.d)), raised |-> FALSE]
    ELSE [d |-> d, raised |-> FALSE]

\* d.update(value) on the pairs d of a dict: [d, raised].  A dict is merged
\* key by key, a list is read as a list of pairs, a str is iterated by
\* character (each of length one, so only the empty str passes) and a number
\* or None is not iterable.
DictUpdate(d, value) ==
    CASE value.k = "dict" ->
           [d |-> UpdateFromDict(d, value.d, Len(value.d)), raised |-> FALSE]
      [] value.k = "list" -> UpdateFromList(d, value.l, Len(value.l))
      [] value.k = "scalar" -> [d |-> d, raised |-> value.s # ""]
      [] OTHER -> [d |-> d, raised |-> TRUE]

(***************************************************************************)
(* The fold of one group.  merged_dict['data'] maps a field to a cell: the *)
(* value itself, or, for a list or dict taken from record ref, a reference *)
(* to that record's object (ref # 0), which the code stores without a copy.*)
(***************************************************************************)
Own(v) == [ref |-> 0, v |-> v]
CellOf(i, value) ==
    IF value.k \in {"list", "dict"} THEN [ref |-> i, v |-> NoneV] ELSE Own(value)
Deref(heap, key, c) == IF c.ref = 0 THEN c.v ELSE Get(heap[c.ref], key)

\* an in-place change (extend, update) of the object behind merged_dict['data'][key]
Mutate(st, key, v) ==
    LET c == Get(st.md, key)
    IN  IF c.ref = 0
        THEN [st EXCEPT !.md = Put(@, key, Own(v))]
        ELSE [st EXCEPT !.heap[c.ref] = Put(@, key, v)]

\* value if isinstance(value, list) else [value]
AsList(value) == IF value.k = "list" THEN value.l ELSE <<value>>

\* the mismatch, if any, between the kind of the combined value cur and the
\* kind of the incoming value (history: the code does not compare them)
Mismatch(cur, value) ==
    IF cur.k = "dict" /\ value.k = "scalar"
    THEN {IF value.s = "" THEN "dict<-empty str" ELSE "dict<-scalar"}
    ELSE IF cur.k = "scalar" /\ value.k = "dict" THEN {"scalar<-dict"}
    ELSE IF cur.k = "dict" /\ value.k # "dict" THEN {"dict<-other"}
    ELSE {}

\* lines 294-310: one key, value pair of record i against merged_dict
MergeField(st0, i, key, value, seed) ==
    IF Has(st0.md, key)
    THEN LET cur == Deref(st0.heap, key, Get(st0.md, key))
             st == [st0 EXCEPT !.seen = @ \cup Mismatch(cur, value)]
         IN  CASE cur.k = "list" ->
                    LET ext == cur.l \o AsList(value)
                        st2 == Mutate(st, key, L(ext))
                    IN  IF \A n \in DOMAIN ext : IsPrimitive(ext[n])
                        THEN [st2 EXCEPT !.md = Put(@, key, Own(L(ListOfSet(ext, seed))))]
                        ELSE st2
               [] cur.k = "dict" ->
                    LET u == DictUpdate(cur.d, value)
                    IN  [Mutate(st, key, D(u.d)) EXCEPT !.raised = u.raised]
               [] OTHER -> [st EXCEPT !.md = Put(@, key, CellOf(i, value))]
    ELSE [st0 EXCEPT !.md = Put(@, key, CellOf(i, value))]

\* line 293: the items 1..n of d['data'], d the record i
RECURSIVE MergeItems(_, _, _, _, _)
MergeItems(st, i, items, n, seed) ==
    IF n = 0 THEN st
    ELSE LET s == MergeItems(st, i, items, n - 1, seed)
         IN  IF s.raised THEN s
             ELSE MergeField(s, i, items[n][1], items[n][2], seed)

\* a faulty MergeGroup: the fold starts at the second record of the group
RECURSIVE MergeGroupSkipFirst(_, _, _, _)
MergeGroupSkipFirst(heap, group, n, seed) ==
    IF n <= 1 THEN [heap |-> heap, md |-> <<>>, raised |-> FALSE, seen |-> {}]
    ELSE LET s == MergeGroupSkipFirst(heap, group, n - 1, seed)
         IN  IF s.raised THEN s
             ELSE MergeItems(s, group[n], s.heap[group[n]], Len(s.heap[group[n]]), seed)

\* line 292: the records 1..n of the group
RECURSIVE MergeGroup(_, _, _, _)
MergeGroup(heap, group, n, seed) ==
    IF n = 0 THEN [heap |-> heap, md |-> <<>>, raised |-> FALSE, seen |-> {}]
    ELSE LET s == MergeGroup(heap, group, n - 1, seed)
         IN  IF s.raised THEN s
             ELSE MergeItems(s, group[n], s.heap[group[n]], Len(s.heap[group[n]]), seed)

\* a faulty ProcessGroups: single_entries.insert(0, group[0])
RECURSIVE ProcessGroupsPrepend(_, _, _, _)
ProcessGroupsPrepend(heap, groups, n, seed) ==
    IF n = 0
    THEN [heap |-> heap, merged_dicts |-> <<>>, from |-> <<>>,
          single_entries |-> <<>>, raised |-> FALSE, seen |-> {}]
    ELSE LET r == ProcessGroupsPrepend(heap, groups, n - 1, seed)
             group == groups[n][2]
         IN  IF r.raised THEN r
             ELSE IF Len(group) > 1
                  THEN LET s == MergeGroup(r.heap, group, Len(group), seed)
                       IN  [r EXCEPT !.heap = s.heap,
                                     !.merged_dicts = Append(@, s.md),
                                     !.from = Append(@, group),
                                     !.seen = @ \cup s.seen,
                                     !.raised = s.raised]
                  ELSE [r EXCEPT !.single_entries = <<group[1]>> \o @]

\* a faulty ProcessGroups: len(group) > 0, every group is merged
RECURSIVE ProcessGroupsMergeAll(_, _, _, _)
ProcessGroupsMergeAll(heap, groups, n, seed) ==
    IF n = 0
    THEN [heap |-> heap, merged_dicts |-> <<>>, from |-> <<>>,
          single_entries |-> <<>>, raised |-> FALSE, seen |-> {}]
    ELSE LET r == ProcessGroupsMergeAll(heap, groups, n - 1, seed)
             group == groups[n][2]
             s == MergeGroup(r.heap, group, Len(group), seed)
         IN  IF r.raised THEN r
             ELSE [r EXCEPT !.heap = s.heap,
                            !.merged_dicts = Append(@, s.md),
                            !.from = Append(@, group),
                            !.seen = @ \cup s.seen,
                            !.raised = s.raised]

\* lines 288-314: the groups 1..n of url_groups
\*   merged_dicts: the merged_dict of each group of size > 1, with its group
\*   single_entries: the records (by index: the objects themselves) of the others
RECURSIVE ProcessGroups(_, _, _, _)
ProcessGroups(heap, groups, n, seed) ==
    IF n = 0
    THEN [heap |-> heap, merged_dicts |-> <<>>, from |-> <<>>,
          single_entries |-> <<>>, raised |-> FALSE, seen |-> {}]
    ELSE LET r == ProcessGroups(heap, groups, n - 1, seed)
             group == groups[n][2]
         IN  IF r.raised THEN r
             ELSE IF Len(group) > 1
                  THEN LET s == MergeGroup(r.heap, group, Len(group), seed)
                       IN  [r EXCEPT !.heap = s.heap,
                                     !.merged_dicts = Append(@, s.md),
                                     !.from = Append(@, group),
                                     !.seen = @ \cup s.seen,
                                     !.raised = s.raised]
                  ELSE [r EXCEPT !.single_entries = Append(@, group[1])]

\* the dict md as it reads when the function returns
Snapshot(heap, md) == [n \in DOMAIN md |-> <<md[n][1], Deref(heap, md[n][1], md[n][2])>>]

\* merge_dicts_by_url(dict_list): the records after the call and what it
\* returns: merged (the merged records), from (the group behind each),
\* single (the unmatched records), raised (no return: an exception), seen
\* (the kinds of mismatch the fold met)
merge_dicts_by_url(heap, seed) ==
    IF \E i \in DOMAIN heap : Unhashable(UrlOf(heap[i]))
    THEN [heap |-> heap, merged |-> <<>>, from |-> <<>>, single |-> <<>>, raised |-> TRUE,
          seen |-> {}]
    ELSE LET r == ProcessGroups(heap, UrlGroups(heap), Len(UrlGroups(heap)), seed)
         IN  IF r.raised
             THEN [heap |-> r.heap, merged |-> <<>>, from |-> <<>>, single |-> <<>>,
                   raised |-> TRUE, seen |-> r.seen]
             ELSE [heap |-> r.heap,
                   merged |-> [g \in DOMAIN r.merged_dicts |->
                                  Snapshot(r.heap, r.merged_dicts[g])],
                   from |-> r.from,
                   single |-> r.single_entries,
                   raised |-> FALSE, seen |-> r.seen]

(***************************************************************************)
(* Key derivation                                                          *)
(***************************************************************************)
\* the literals of add_log_htc (lines 225, 228) and of add_log_wma (lines 246, 249)
Prefix == "https://eoscmsweb.cern.ch/eos/cms/store/logs/prod/recent/PRODUCTION"
Suffix == "-log.tar.gz"
WmaPrefix == "https://eoscmsweb.cern.ch/eos/cms/store/logs/prod/recent/PRODUCTION"
WmaSuffix == "-log.tar.gz"

\* str.split(" ") of s[start..], scanning from position i
RECURSIVE SplitFrom(_, _, _)
SplitFrom(s, start, i) ==
    IF i > Len(s) THEN <<SubSeq(s, start, Len(s))>>
    ELSE IF SubSeq(s, i, i) = " "
         THEN <<SubSeq(s, start, i - 1)>> \o SplitFrom(s, i + 1, i + 1)
         ELSE SplitFrom(s, start, i + 1)

Split(s) == SplitFrom(s, 1, 1)

IsStr(data, key) == Has(data, key) /\ Get(data, key).k = "scalar"

\* lines 224-228 raise (KeyError, IndexError, AttributeError) on this record
HtcRaises(data) ==
    \/ ~IsStr(data, "Args")
    \/ ~IsStr(data, "WMAgent_SubTaskName")
    \/ ~IsStr(data, "ScheddName")
    \/ Len(Split(Get(data, "Args").s)) < 3

\* a faulty HtcUrl: the first and the second token of Args
HtcUrlFirstTokens(data) ==
    LET args == Split(Get(data, "Args").s)
    IN  Prefix \o Get(data, "WMAgent_SubTaskName").s \o "/" \o
        Get(data, "ScheddName").s \o "-" \o args[1] \o "-" \o args[2] \o Suffix

\* lines 224-228: args[1] and args[2] are the second and the third token
HtcUrl(data) ==
    LET args == Split(Get(data, "Args").s)
    IN  Prefix \o Get(data, "WMAgent_SubTaskName").s \o "/" \o
        Get(data, "ScheddName").s \o "-" \o args[2] \o "-" \o args[3] \o Suffix

\* line 243: entry["_source"]['data'].get("EOSLogURL", "") == ""
WmaNeedsUrl(data) == ~Has(data, "EOSLogURL") \/ Get(data, "EOSLogURL") = S("")

WmaRaises(data) ==
    /\ WmaNeedsUrl(data)
    /\ \/ ~IsStr(data, "task")
       \/ ~Has(data, "meta_data")
       \/ Get(data, "meta_data").k # "dict"
       \/ ~Has(Get(data, "meta_data").d, "host")
       \/ ~Has(Get(data, "meta_data").d, "fwjr_id")

\* lines 245-249
WmaUrl(data) ==
    WmaPrefix \o Get(data, "task").s \o "/" \o Get(Get(data, "meta_data").d, "host") \o
    "-" \o Get(Get(data, "meta_data").d, "fwjr_id") \o WmaSuffix

\* add_log_htc(data): the records with their EOSLogURL, up to the first that raises
RECURSIVE add_log_htc(_, _)
add_log_htc(hits, n) ==
    IF n = 0 THEN [result |-> <<>>, raised |-> FALSE]
    ELSE LET r == add_log_htc(hits, n - 1)
         IN  IF r.raised THEN r
             ELSE IF HtcRaises(hits[n]) THEN [r EXCEPT !.raised = TRUE]
             ELSE [r EXCEPT !.result =
                       Append(@, Put(hits[n], "EOSLogURL", S(HtcUrl(hits[n]))))]

\* add_log_wma(data)
RECURSIVE add_log_wma(_, _)
add_log_wma(hits, n) ==
    IF n = 0 THEN [result |-> <<>>, raised |-> FALSE]
    ELSE LET r == add_log_wma(hits, n - 1)
         IN  IF r.raised THEN r
             ELSE IF WmaRaises(hits[n]) THEN [r EXCEPT !.raised = TRUE]
             ELSE [r EXCEPT !.result =
                       Append(@, IF WmaNeedsUrl(hits[n])
                                 THEN Put(hits[n], "EOSLogURL", S(WmaUrl(hits[n])))
                                 ELSE hits[n])]

(***************************************************************************)
(* Bounds and the inputs drawn                                             *)
(***************************************************************************)
MaxRecs == 3      \* records of an input list with list and dict fields
MaxFlat == 4      \* records of an input list with scalar fields only
MaxCalls == 2     \* calls of merge_dicts_by_url on one input list
MaxHits == 2      \* hits of one fetched batch

Absent == [k |-> "absent", s |-> "", l |-> <<>>, d |-> <<>>]

\* a dict literal: the pairs whose value is present
Lit(ps) == SelectSeq(ps, LAMBDA p : p[2] # Absent)

FieldValues ==
    { S(""), S("a"),
      L(<<S("a")>>), L(<<S("b"), S("a"), S("b")>>),
      D(<<<<"x", "a">>>>), D(<<<<"x", "b">>, <<"y", "a">>>>) }

FewValues == { S("a"), L(<<S("a")>>), D(<<<<"x", "a">>>>) }

NestedRecs(u, values) ==
    { Lit(<<<<"EOSLogURL", S(u)>>, <<"f", v>>>>) : v \in values \cup {Absent} }

FlatRecs(urls) ==
    { Lit(<<<<"g", p[1]>>, <<"f", p[2]>>, <<"EOSLogURL", u>>>>) :
        p \in {<<Absent, S("a")>>, <<S("b"), S("c")>>},
        u \in urls }

ListsOf(set, max) == UNION { [1..n -> set] : n \in 1..max }

\* the lists of records with list and dict fields: a group u1 with every
\* value of the field f and a second key u2 with some; the first record
\* carries u1 (urls are only compared, so the other choice is a renaming)
NestedInputs ==
    { q \in ListsOf(NestedRecs("u1", FieldValues) \cup NestedRecs("u2", FewValues), MaxRecs) :
        q[1] \in NestedRecs("u1", FieldValues) }

\* the lists of records with scalar fields, some without EOSLogURL
FlatInputs ==
    { q \in ListsOf(FlatRecs({S("u1"), S("u2"), Absent}), MaxFlat) :
        q[1] \in FlatRecs({S("u1"), Absent}) }

NoRet == [merged |-> <<>>, from |-> <<>>, single |-> <<>>, raised |-> FALSE, seen |-> {}]
NoBatch == [fetched |-> FALSE, status |-> 0, total |-> 0, hits |-> <<>>]

(***************************************************************************)
(* merge_dicts_by_url called on a list of records                          *)
(***************************************************************************)
Init ==
    /\ \/ recs \in NestedInputs /\ hashSeed \in {0, 1}
       \/ recs \in FlatInputs /\ hashSeed = 0
    /\ input = recs
    /\ ncalls = 0
    /\ ret = NoRet
    /\ ret1 = NoRet
    /\ pc = "lib"
    /\ wma = NoBatch
    /\ htc = NoBatch
    /\ ran = {}

Returned(r) == [merged |-> r.merged, from |-> r.from, single |-> r.single,
                raised |-> r.raised, seen |-> r.seen]

\* merged_dicts, single_entries = merge_dicts_by_url(dict_list)
Call ==
    /\ pc = "lib"
    /\ ncalls < MaxCalls
    /\ LET r == merge_dicts_by_url(recs, hashSeed)
       IN  /\ recs' = r.heap
           /\ ret' = Returned(r)
           /\ ret1' = IF ncalls = 0 THEN Returned(r) ELSE ret1
    /\ ncalls' = ncalls + 1
    /\ UNCHANGED <<input, hashSeed, pc, wma, htc, ran>>

Next == Call

Spec == Init /\ [][Next]_vars

(***************************************************************************)
(* The main program (lines 350-385)                                        *)
(***************************************************************************)
HtcHits ==
    { <<<<"WMAgent_SubTaskName", S("/T1")>>, <<"ScheddName", S("s1")>>, <<"Args", S(a)>>>> :
        a \in {"x a1 a2 x", "x a1 a2-b", "x a1"} }

WmaHit(h, j, u) ==
    Lit(<<<<"task", S("/T1")>>,
          <<"meta_data", D(<<<<"host", h>>, <<"fwjr_id", j>>>>)>>,
          <<"EOSLogURL", u>>>>)

WmaHits ==
    { WmaHit(h, j, Absent) : h \in {"s1", "s2"}, j \in {"a1-a2", "a1-a2-b"} }
    \cup { WmaHit("s1", "a1-a2", S("")),
           WmaHit("s1", "a1-a2", S("https://given")),
           <<<<"task", S("/T1")>>>> }

Batches(hits) ==
    { [fetched |-> TRUE, status |-> 200, total |-> Len(q), hits |-> q] :
        q \in {<<>>} \cup ListsOf(hits, MaxHits) }

Failed == { [fetched |-> TRUE, status |-> c, total |-> 0, hits |-> <<>>] : c \in {404, 500} }

InitMain ==
    /\ recs = <<>>
    /\ input = <<>>
    /\ hashSeed = 0
    /\ ncalls = 0
    /\ ret = NoRet
    /\ ret1 = NoRet
    /\ pc = "config"
    /\ wma = NoBatch
    /\ htc = NoBatch
    /\ ran = {}

\* lines 350-362: the queries are built; read_selection_json exits when the
\* selection file is missing
BuildQueries ==
    /\ pc = "config"
    /\ \E found \in BOOLEAN : pc' = IF found THEN "fetch_wma" ELSE "exited"
    /\ UNCHANGED <<recs, input, hashSeed, ncalls, ret, ret1, wma, htc, ran>>

\* fetch_data: where the program is after a response with this status
AfterFetch(response, next) == IF response.status # 200 THEN "exited" ELSE next

\* line 365: wma = fetch_data(url, headers, query_wma)
FetchWma ==
    /\ pc = "fetch_wma"
    /\ \E response \in Batches(WmaHits) \cup Failed :
          /\ wma' = response
          /\ pc' = AfterFetch(response, "fetch_htc")
    /\ UNCHANGED <<recs, input, hashSeed, ncalls, ret, ret1, htc, ran>>

\* line 366: htc = fetch_data(url, headers, query_htc)
FetchHtc ==
    /\ pc = "fetch_htc"
    /\ \E response \in Batches(HtcHits) \cup Failed :
          /\ htc' = response
          /\ pc' = AfterFetch(response, "totals")
    /\ UNCHANGED <<recs, input, hashSeed, ncalls, ret, ret1, wma, ran>>

\* a faulty AfterTotals: the HTCondor total is not looked at
AfterTotalsWmaOnly(nqueried_wma, nqueried_htc) ==
    IF nqueried_wma = 0 THEN "exited" ELSE "add_log_wma"

\* lines 369-375: where the program is after the two totals are read
AfterTotals(nqueried_wma, nqueried_htc) ==
    IF nqueried_wma = 0 THEN "exited"
    ELSE IF nqueried_htc = 0 THEN "exited"
    ELSE "add_log_wma"

CheckTotals ==
    /\ pc = "totals"
    /\ pc' = AfterTotals(wma.total, htc.total)
    /\ input' = htc.hits \o wma.hits
    /\ UNCHANGED <<recs, hashSeed, ncalls, ret, ret1, wma, htc, ran>>

\* the entries as add_log_* leaves them: those before the one that raised
\* carry their EOSLogURL (the entries are changed in place)
InPlace(hits, r) == r.result \o SubSeq(hits, Len(r.result) + 1, Len(hits))

\* line 381: wma_with_logs = add_log_wma(wma["hits"])
AddLogWma ==
    /\ pc = "add_log_wma"
    /\ LET r == add_log_wma(wma.hits, Len(wma.hits))
       IN  /\ wma' = [wma EXCEPT !.hits = InPlace(@, r)]
           /\ pc' = IF r.raised THEN "crashed" ELSE "add_log_htc"
    /\ ran' = ran \cup {"add_log_wma"}
    /\ UNCHANGED <<recs, input, hashSeed, ncalls, ret, ret1, htc>>

\* line 382: htc_with_logs = add_log_htc(htc["hits"])
AddLogHtc ==
    /\ pc = "add_log_htc"
    /\ LET r == add_log_htc(htc.hits, Len(htc.hits))
       IN  /\ htc' = [htc EXCEPT !.hits = InPlace(@, r)]
           /\ pc' = IF r.raised THEN "crashed" ELSE "merge"
    /\ ran' = ran \cup {"add_log_htc"}
    /\ UNCHANGED <<recs, input, hashSeed, ncalls, ret, ret1, wma>>

\* line 385: merge_dicts_by_url(htc_with_logs + wma_with_logs)
Merge ==
    /\ pc = "merge"
    /\ LET r == merge_dicts_by_url(htc.hits \o wma.hits, hashSeed)
       IN  /\ recs' = r.heap
           /\ ret' = Returned(r)
           /\ ret1' = Returned(r)
           /\ pc' = IF r.raised THEN "crashed" ELSE "done"
    /\ ncalls' = ncalls + 1
    /\ ran' = ran \cup {"merge_dicts_by_url"}
    /\ UNCHANGED <<input, hashSeed, wma, htc>>

NextMain ==
    \/ BuildQueries
    \/ FetchWma
    \/ FetchHtc
    \/ CheckTotals
    \/ AddLogWma
    \/ AddLogHtc
    \/ Merge

SpecMain == InitMain /\ [][NextMain]_vars

(***************************************************************************)
(* Properties of merge_dicts_by_url (specification Spec)                   *)
(***************************************************************************)
Returns == ncalls >= 1 /\ ~ret.raised

Count(q, x) == Cardinality({n \in DOMAIN q : q[n] = x})

\* the places <<g, n>> of the groups behind the merged records
Places == UNION { {g} \X DOMAIN ret.from[g] : g \in DOMAIN ret.from }
PlacesOf(i) == {p \in Places : ret.from[p[1]][p[2]] = i}

\* the input records that carry the key of a returned record
MembersOf(data) == {i \in DOMAIN input : UrlOf(input[i]) = UrlOf(data)}
Carriers(data, key) == {i \in MembersOf(data) : Has(input[i], key)}

\* the place in the input where the key of a returned record is first seen
FirstSeen(data) == CHOOSE i \in MembersOf(data) : \A j \in MembersOf(data) : i <= j
Last(set) == CHOOSE i \in set : \A j \in set : j <= i

Alone(i) == \A j \in DOMAIN input : j # i => UrlOf(input[j]) # UrlOf(input[i])

\* C1: when merge_dicts_by_url returns, every input record is the record of
\* exactly one unmatched entry or a member of the group of exactly one merged
\* record, never both and never neither; the groups are the classes of equal
\* EOSLogURL, each merged record stands for a group of at least two, and
\* (unmatched entries) + (sizes of the merged groups) = (input records).
GroupsPartitionInput ==
    Returns =>
        /\ \A i \in DOMAIN input :
              Count(ret.single, i) + Cardinality(PlacesOf(i)) = 1
        /\ Len(ret.from) = Len(ret.merged)
        /\ \A g \in DOMAIN ret.from :
              /\ Len(ret.from[g]) >= 2
              /\ Range(ret.from[g]) = MembersOf(ret.merged[g])
        /\ \A n \in DOMAIN ret.single : Alone(ret.single[n])
        /\ Len(ret.single) + Cardinality(Places) = Len(input)

GroupsPartitionInputWitness ==
    /\ Returns
    /\ Len(ret.single) >= 1
    /\ \E g \in DOMAIN ret.from : Len(ret.from[g]) >= 2

\* C2 as stated: a fold that meets a nested mapping where the other value is
\* a scalar, in either direction, ends in an error.
MismatchIsFatal ==
    (ncalls >= 1 /\ ret.seen \cap {"dict<-scalar", "dict<-empty str", "scalar<-dict"} # {})
        => ret.raised

\* C2 as amended: a fold in which a scalar other than the empty str meets a
\* combined nested mapping raises; a fold that meets nothing but an empty str
\* against a combined mapping (ignored) or a mapping against a combined
\* scalar (the mapping replaces it) does not raise.
ScalarIntoMappingIsFatal ==
    ncalls >= 1 =>
        /\ "dict<-scalar" \in ret.seen => ret.raised
        /\ ret.seen \subseteq {"dict<-empty str", "scalar<-dict"} => ~ret.raised

ScalarIntoMappingIsFatalWitness ==
    /\ ncalls >= 1
    /\ ret.seen = {"dict<-scalar"}
    /\ ret.raised

\* C3: a second call on the same input list returns the same merged records
\* as the first.
SecondCallSameMerged ==
    (ncalls = 2 /\ ~ret1.raised /\ ~ret.raised) => ret.merged = ret1.merged

\* C4: the field names of a merged record are exactly the union of the field
\* names of the records of its group.
FieldUnion ==
    Returns =>
        \A g \in DOMAIN ret.merged :
            Keys(ret.merged[g]) =
                UNION { Keys(input[i]) : i \in MembersOf(ret.merged[g]) }

FieldUnionWitness ==
    /\ Returns
    /\ \E g \in DOMAIN ret.merged :
          \E i, j \in MembersOf(ret.merged[g]) :
              /\ Keys(input[i]) \ Keys(input[j]) # {}
              /\ Keys(ret.merged[g]) # Keys(input[j])

\* C5: the merged records, and the unmatched records, are in the order in
\* which their keys are first seen in the input; the records of a group are
\* folded in input order (a field that is a scalar in every member that
\* carries it ends with the value of the last of them in the input).
FirstSeenOrder ==
    Returns =>
        /\ \A g, h \in DOMAIN ret.merged :
              g < h => FirstSeen(ret.merged[g]) < FirstSeen(ret.merged[h])
        /\ \A m, n \in DOMAIN ret.single :
              m < n => FirstSeen(input[ret.single[m]]) < FirstSeen(input[ret.single[n]])
        /\ \A g \in DOMAIN ret.from :
              \A m, n \in DOMAIN ret.from[g] : m < n => ret.from[g][m] < ret.from[g][n]
        /\ \A g \in DOMAIN ret.merged :
              \A key \in Keys(ret.merged[g]) :
                  LET c == Carriers(ret.merged[g], key)
                  IN  (\A i \in c : Get(input[i], key).k = "scalar")
                          => Get(ret.merged[g], key) = Get(input[Last(c)], key)

FirstSeenOrderWitness ==
    /\ Returns
    /\ Len(ret.merged) >= 2
    /\ \E key \in Keys(ret.merged[1]) :
          \E i, j \in Carriers(ret.merged[1], key) :
              /\ Get(input[i], key).k = "scalar"
              /\ Get(input[j], key).k = "scalar"
              /\ Get(input[i], key) # Get(input[j], key)

\* C7: a record whose EOSLogURL no other input record shares is in the
\* unmatched output exactly once, with the fields it had in the input, and
\* in the group of no merged record.
SingletonPassesThrough ==
    ncalls >= 1 =>
        \A i \in DOMAIN input :
            Alone(i) =>
                /\ recs[i] = input[i]
                /\ ~ret.raised =>
                      /\ Count(ret.single, i) = 1
                      /\ PlacesOf(i) = {}
                      /\ \A g \in DOMAIN ret.merged : i \notin MembersOf(ret.merged[g])

SingletonPassesThroughWitness ==
    /\ Returns
    /\ Len(ret.merged) >= 1
    /\ \E i \in DOMAIN input :
          /\ Alone(i)
          /\ Has(input[i], "f")
          /\ Get(input[i], "f").k = "list"

ListOfScalars(v) == v.k = "list" /\ \A n \in DOMAIN v.l : IsPrimitive(v.l[n])

\* C8: a field carried by at least two members of a group, and a list of
\* scalars in each of them, is in the merged record a list without
\* duplicates whose elements are those of the members' lists.
SequencesDeduplicated ==
    Returns =>
        \A g \in DOMAIN ret.merged :
            \A key \in Keys(ret.merged[g]) :
                LET c == Carriers(ret.merged[g], key)
                    m == Get(ret.merged[g], key)
                IN  (Cardinality(c) >= 2 /\ \A i \in c : ListOfScalars(Get(input[i], key)))
                        => /\ m.k = "list"
                           /\ \A a, b \in DOMAIN m.l : a # b => m.l[a] # m.l[b]
                           /\ Range(m.l) = UNION { Range(Get(input[i], key).l) : i \in c }

SequencesDeduplicatedWitness ==
    /\ Returns
    /\ \E g \in DOMAIN ret.merged :
          LET c == Carriers(ret.merged[g], "f")
          IN  /\ Cardinality(c) = 3
              /\ \A i \in c : ListOfScalars(Get(input[i], "f"))
              /\ Len(Get(ret.merged[g], "f").l) = 2

\* C10: after merge_dicts_by_url the field mapping of every input record is
\* what it was before the call.
InputUnmodified == ncalls >= 1 => recs = input

(***************************************************************************)
(* Properties of the main program (specification SpecMain)                 *)
(***************************************************************************)
Tokens == {"x", "a1", "a2", "a2-b"}

\* the second and third space-separated tokens of args are a and b
SecondThird(args, a, b) ==
    \E x \in Tokens :
        \/ args = x \o " " \o a \o " " \o b
        \/ \E y \in Tokens : args = x \o " " \o a \o " " \o b \o " " \o y

ExpectedUrl(t, h, a, b) == Prefix \o t \o "/" \o h \o "-" \o a \o "-" \o b \o Suffix

\* the HTC record i and the WMA record j of the fetched batches describe
\* the same job: the WMA record has no EOSLogURL (or an empty one), the task
\* and the host of the HTC record, and the fwjr_id a-b, where a and b are the
\* second and third token of the Args of the HTC record
SameJob(i, j, a, b) ==
    /\ Has(input[i], "Args")
    /\ Has(input[j], "task")
    /\ Has(input[j], "meta_data")
    /\ ~Has(input[j], "EOSLogURL") \/ Get(input[j], "EOSLogURL") = S("")
    /\ Get(input[j], "task") = Get(input[i], "WMAgent_SubTaskName")
    /\ Get(Get(input[j], "meta_data").d, "host") = Get(input[i], "ScheddName").s
    /\ Get(Get(input[j], "meta_data").d, "fwjr_id") = a \o "-" \o b
    /\ SecondThird(Get(input[i], "Args").s, a, b)

UrlOfJob(i, a, b) ==
    S(ExpectedUrl(Get(input[i], "WMAgent_SubTaskName").s, Get(input[i], "ScheddName").s, a, b))

\* C6: an HTC record and a WMA record of the same job get the same
\* EOSLogURL, prefix + t + '/' + h + '-' + a + '-' + b + '-log.tar.gz', and
\* merge_dicts_by_url returns them in one merged record, neither unmatched.
SameJobIsMerged ==
    pc = "done" =>
        \A i, j \in DOMAIN input :
            \A a, b \in Tokens :
                SameJob(i, j, a, b) =>
                    /\ UrlOf(recs[i]) = UrlOfJob(i, a, b)
                    /\ UrlOf(recs[j]) = UrlOfJob(i, a, b)
                    /\ \E g \in DOMAIN ret.merged :
                          /\ {i, j} \subseteq Range(ret.from[g])
                          /\ UrlOf(ret.merged[g]) = UrlOfJob(i, a, b)
                    /\ Count(ret.single, i) = 0
                    /\ Count(ret.single, j) = 0

SameJobIsMergedWitness ==
    /\ pc = "done"
    /\ \E i, j \in DOMAIN input : SameJob(i, j, "a1", "a2-b")
    /\ Len(ret.single) >= 1

\* a fetch came back with a status other than 200, or a fetched batch has total 0
Unusable(batch) == batch.fetched /\ (batch.status # 200 \/ batch.total = 0)

\* C9: once a fetch has failed or a fetched batch is empty, the program is
\* on its way to the exit or has exited and no function of the core has been
\* or will be entered; the core is entered only after both batches were
\* fetched with status 200 and a total other than 0.
CoreOnlyAfterUsableBatches ==
    /\ (Unusable(wma) \/ Unusable(htc)) =>
          /\ ran = {}
          /\ pc \in {"fetch_htc", "totals", "exited"}
          /\ (wma.status # 200 \/ htc.fetched) => pc \in {"totals", "exited"}
          /\ (wma.status # 200 \/ (htc.fetched /\ htc.status # 200)) => pc = "exited"
    /\ (ran # {} \/ pc \in {"add_log_wma", "add_log_htc", "merge", "done", "crashed"}) =>
          /\ wma.fetched /\ wma.status = 200 /\ wma.total # 0
          /\ htc.fetched /\ htc.status = 200 /\ htc.total # 0

CoreOnlyAfterUsableBatchesWitness ==
    /\ pc = "exited"
    /\ wma.fetched /\ wma.status = 200 /\ wma.total # 0
    /\ htc.fetched /\ htc.status = 200 /\ htc.total = 0

====
